---- MODULE Spec2Model ----
(***************************************************************************)
(* Phase-synchrony metrics (PLV, iPLV, PLI, wPLI) of erp_phase_analysis.py *)
(* and the viewer (MyApp) that stores their results.                       *)
(*                                                                         *)
(* Arithmetic is exact.  The tensors have 1, 2 or 4 samples per row: for   *)
(* these lengths the DFT twiddle factors are powers of i, so the analytic  *)
(* signal of an integer row is a Gaussian integer divided by the length.   *)
(* The rows are chosen so that every analytic sample lies on an axis or a  *)
(* diagonal (or is 0): every phase is a multiple of pi/4, and every        *)
(* cosine and sine is a number (a + b*sqrt(2))/d with integers a, b, d.    *)
(***************************************************************************)
EXTENDS Integers, Sequences, FiniteSets, TLC

VARIABLES
    data,          \* engine: the caller's tensor [trial][channel][sample]
    ch1,           \* engine: the caller's first channel index
    ch2,           \* engine: the caller's second channel index
    results,       \* engine: per metric, what its last call returned
    minus_zero,    \* the build: hilbert gives a real sample the imaginary
                   \* part -0.0 (TRUE) or +0.0 (FALSE)
    epochs,        \* viewer: self.epochs (its data tensor)
    filtered,      \* viewer: self.filtered_epochs (its data tensor)
    method,        \* viewer: methodComboBox.currentIndex()
    appdata,       \* viewer: self.data, channel-pair key -> result
    returnValue,   \* viewer: self.returnValue
    closed,        \* viewer: the window was closed
    dispatched     \* viewer: what the last direct run_phase_analysis call gave

engineVars == <<data, ch1, ch2, results, minus_zero>>
viewerVars == <<epochs, filtered, method, appdata, returnValue, closed,
                dispatched>>
vars == <<data, ch1, ch2, results, minus_zero, epochs, filtered, method, appdata,
          returnValue, closed, dispatched>>

-----------------------------------------------------------------------------
(* Bounds of the model. *)

MaxTrials == 2

SampleCounts == {1, 2, 4}

\* epochs.ch_names: the channel axis of every tensor has one entry per name.
ch_names == <<"Fz", "Cz">>

\* Rows (one channel of one trial) per sample count.
Rows(S) ==
    CASE S = 1 -> {<<-1>>, <<1>>}
      [] S = 2 -> {<<1, -1>>, <<0, 1>>}
      [] S = 4 -> {<<1, 0, -1, 0>>, <<1, 1, -1, -1>>, <<1, -1, -1, 1>>}

\* All tensors of T trials, C channels, S samples with rows from R.
TensorsOf(T, C, S, R) == [1..T -> [1..C -> R]]

-----------------------------------------------------------------------------
(* Numbers.  Num(a, b, d) is (a + b*sqrt(2)) / d with d > 0; with root set  *)
(* it is the non-negative square root of that.  NaN is IEEE not-a-number.   *)

Num(a, b, d) == [kind |-> "num", a |-> a, b |-> b, d |-> d, root |-> FALSE]

Root(x) == [x EXCEPT !.root = TRUE]

NaN == [kind |-> "nan", a |-> 0, b |-> 0, d |-> 1, root |-> FALSE]

Abs(i) == IF i < 0 THEN -i ELSE i

Sign(i) == IF i > 0 THEN 1 ELSE IF i < 0 THEN -1 ELSE 0

\* The sign of a + b*sqrt(2).
SignSurd(a, b) ==
    CASE a >= 0 /\ b >= 0 -> IF a = 0 /\ b = 0 THEN 0 ELSE 1
      [] a <= 0 /\ b <= 0 /\ (a < 0 \/ b < 0) -> -1
      [] a > 0 /\ b < 0 -> Sign(a * a - 2 * b * b)
      [] a < 0 /\ b > 0 -> Sign(2 * b * b - a * a)

IsNaN(x) == x.kind = "nan"

\* x >= 0, x <= 1, x = 0, x = 1 for a number x (never true of NaN).  A root
\* is compared through its square.
GeqZero(x) == ~IsNaN(x) /\ SignSurd(x.a, x.b) >= 0

LeqOne(x) == ~IsNaN(x) /\ SignSurd(x.a - x.d, x.b) <= 0

IsZero(x) == ~IsNaN(x) /\ x.a = 0 /\ x.b = 0

IsOne(x) == ~IsNaN(x) /\ x.a = x.d /\ x.b = 0

\* np.abs of a number that is not a root.
NumAbs(x) ==
    IF IsNaN(x) THEN x
    ELSE IF SignSurd(x.a, x.b) < 0 THEN Num(-x.a, -x.b, x.d) ELSE x

RECURSIVE SumSeq(_)
SumSeq(s) == IF s = <<>> THEN 0 ELSE Head(s) + SumSeq(Tail(s))

\* <<F(1), ..., F(n)>>, built element by element.
RECURSIVE Tab(_, _)
Tab(F(_), n) ==
    CASE n = 0 -> <<>>
      [] n = 1 -> <<F(1)>>
      [] n = 2 -> <<F(1), F(2)>>
      [] n = 3 -> <<F(1), F(2), F(3)>>
      [] n = 4 -> <<F(1), F(2), F(3), F(4)>>
      [] OTHER -> Append(Tab(F, n - 1), F(n))

-----------------------------------------------------------------------------
(* Complex numbers with integer parts. *)

Cx(re, im) == [re |-> re, im |-> im]

\* z * i^k
MulIPow(z, k) ==
    CASE k % 4 = 0 -> z
      [] k % 4 = 1 -> Cx(-z.im, z.re)
      [] k % 4 = 2 -> Cx(-z.re, -z.im)
      [] k % 4 = 3 -> Cx(z.im, -z.re)

RECURSIVE SumCx(_)
SumCx(s) ==
    IF s = <<>> THEN Cx(0, 0)
    ELSE LET r == SumCx(Tail(s)) IN Cx(Head(s).re + r.re, Head(s).im + r.im)

\* scipy.fft.fft of a sequence of length N in {1, 2, 4}: the twiddle factor
\* exp(-2 pi i / N) is (-i)^(4/N) = i^(3 * 4/N).
fft(x) ==
    LET N == Len(x)
        q == 4 \div N
    IN  Tab(LAMBDA k :
              SumCx(Tab(LAMBDA n : MulIPow(x[n], 3 * q * (n - 1) * (k - 1)),
                        N)),
            N)

\* N * scipy.fft.ifft: the inverse transform without its division by N.
ifftN(y) ==
    LET N == Len(y)
        q == 4 \div N
    IN  Tab(LAMBDA n :
              SumCx(Tab(LAMBDA k : MulIPow(y[k], q * (n - 1) * (k - 1)), N)),
            N)

\* The weights scipy.signal.hilbert gives the N frequencies: 1 at indices 0
\* and N/2 (N even), 2 below N/2 (or (N+1)/2, N odd), 0 above.
HilbertWeights(N) ==
    Tab(LAMBDA k :
          IF N % 2 = 0
          THEN IF k - 1 = 0 \/ k - 1 = N \div 2 THEN 1
               ELSE IF k - 1 < N \div 2 THEN 2 ELSE 0
          ELSE IF k - 1 = 0 THEN 1
               ELSE IF k - 1 < (N + 1) \div 2 THEN 2 ELSE 0,
        N)

\* scipy.signal.hilbert of one real row, times its length N: the parts of
\* the analytic signal ifft(fft(x) * h).  The sign of a zero imaginary part
\* is the build's (minus_zero).
hilbert(x) ==
    LET N == Len(x)
        Xf == fft(Tab(LAMBDA n : Cx(x[n], 0), N))
        h == HilbertWeights(N)
    IN  ifftN(Tab(LAMBDA k : Cx(Xf[k].re * h[k], Xf[k].im * h[k]), N))

\* An analytic sample as np.angle reads it: its parts and, for an imaginary
\* part of zero, whether that zero is the IEEE -0.0.
Sample(z, minus) == [re |-> z.re, im |-> z.im, minus |-> z.im = 0 /\ minus]

\* np.angle, that is arctan2(imag, real), in units of pi/4.  On the negative
\* real axis it is +pi for an imaginary part +0.0 and -pi for -0.0: the
\* range is [-pi, pi].  np.angle(0) is 0 (of either sign).  Defined for the
\* eight axis and diagonal directions.
angle(z) ==
    CASE z.im = 0 /\ z.re >= 0 -> 0
      [] z.im = 0 /\ z.re < 0 -> IF z.minus THEN -4 ELSE 4
      [] z.re = 0 /\ z.im > 0 -> 2
      [] z.re = 0 /\ z.im < 0 -> -2
      [] z.re > 0 /\ z.im = z.re -> 1
      [] z.re > 0 /\ z.im = -z.re -> -1
      [] z.re < 0 /\ z.im = -z.re -> 3
      [] z.re < 0 /\ z.im = z.re -> -3

\* 2 * cos(k * pi/4) as <<a, b>> for a + b*sqrt(2).
Cos2(k) ==
    CASE k % 8 = 0 -> <<2, 0>>
      [] k % 8 = 1 -> <<0, 1>>
      [] k % 8 = 2 -> <<0, 0>>
      [] k % 8 = 3 -> <<0, -1>>
      [] k % 8 = 4 -> <<-2, 0>>
      [] k % 8 = 5 -> <<0, -1>>
      [] k % 8 = 6 -> <<0, 0>>
      [] k % 8 = 7 -> <<0, 1>>

\* 2 * sin(k * pi/4).
Sin2(k) == Cos2(k - 2)

-----------------------------------------------------------------------------
(* Indexing: data[:, ch, :] *)

NumTrials(d) == Len(d)
NumChannels(d) == Len(d[1])
NumSamples(d) == Len(d[1][1])

\* numpy accepts an integer index ch of an axis of length C iff -C <= ch < C.
IndexOk(d, ch) == -NumChannels(d) <= ch /\ ch < NumChannels(d)

\* data[:, ch, :] for an accepted index: a negative index counts from the end.
Slice(d, ch) ==
    LET c == IF ch < 0 THEN ch + NumChannels(d) ELSE ch
    IN  Tab(LAMBDA t : d[t][c + 1], NumTrials(d))

IndexError == [kind |-> "IndexError", values |-> <<>>]

Array(v) == [kind |-> "array", values |-> v]

-----------------------------------------------------------------------------
(* The metrics.  Each returns Array(values), one number per sample, or      *)
(* IndexError when numpy rejects a channel index.                           *)

\* m[trial][sample] with F applied to every element.
Map2(F(_), m) ==
    Tab(LAMBDA t : Tab(LAMBDA n : F(m[t][n]), Len(m[t])), Len(m))

\* Summing along the sample axis instead: one sum per trial.
SumAxis1(m) == Tab(LAMBDA t : SumSeq(m[t]), Len(m))

\* np.mean(m, axis=0) of m[trial][sample], times the number of trials: one
\* sum per sample.  The callers put the number of trials in the denominator
\* of the number they build.
SumAxis0(m) ==
    Tab(LAMBDA n : SumSeq(Tab(LAMBDA t : m[t][n], Len(m))), Len(m[1]))

\* hilbert of every row a tensor of the model can hold, computed once.
AllRows == UNION {Rows(S) : S \in SampleCounts}

HilbertTable ==
    [x \in AllRows |->
        [minus \in BOOLEAN |->
            Tab(LAMBDA n : Sample(hilbert(x)[n], minus), Len(x))]]

\* hilbert applied to every trial's row (along the sample axis).
Analytic(rows) ==
    Tab(LAMBDA t : HilbertTable[rows[t]][minus_zero], Len(rows))

PhaseDifferenceAdded(d, c1, c2) ==
    LET a1 == Analytic(Slice(d, c1))
        a2 == Analytic(Slice(d, c2))
    IN  Tab(LAMBDA t :
              Tab(LAMBDA n : angle(a1[t][n]) + angle(a2[t][n]),
                  NumSamples(d)),
            NumTrials(d))

\* np.angle(analytic_signal_ch1) - np.angle(analytic_signal_ch2), in units of
\* pi/4: the raw difference.
PhaseDifference(d, c1, c2) ==
    LET a1 == Analytic(Slice(d, c1))
        a2 == Analytic(Slice(d, c2))
    IN  Tab(LAMBDA t :
              Tab(LAMBDA n : angle(a1[t][n]) - angle(a2[t][n]),
                  NumSamples(d)),
            NumTrials(d))

calculate_plv(d, c1, c2) ==
    IF ~IndexOk(d, c1) \/ ~IndexOk(d, c2) THEN IndexError
    ELSE LET T == NumTrials(d)
             phase_difference == PhaseDifference(d, c1, c2)
             \* mean_vector, the trial mean of exp(1j * phase_difference), is
             \* (Xa + Xb sqrt 2 + i (Ya + Yb sqrt 2)) / (2 T)
             Xa == SumAxis0(Map2(LAMBDA p : Cos2(p)[1], phase_difference))
             Xb == SumAxis0(Map2(LAMBDA p : Cos2(p)[2], phase_difference))
             Ya == SumAxis0(Map2(LAMBDA p : Sin2(p)[1], phase_difference))
             Yb == SumAxis0(Map2(LAMBDA p : Sin2(p)[2], phase_difference))
         IN  \* np.abs: the root of re^2 + im^2
             Array(Tab(LAMBDA n :
                         Root(Num(Xa[n] * Xa[n] + 2 * Xb[n] * Xb[n]
                                    + Ya[n] * Ya[n] + 2 * Yb[n] * Yb[n],
                                  2 * Xa[n] * Xb[n] + 2 * Ya[n] * Yb[n],
                                  4 * T * T)),
                       Len(Xa)))

calculate_iplv_stale(d, c1, c2) ==
    IF ~IndexOk(d, c1) \/ ~IndexOk(d, c2) THEN IndexError
    ELSE IF results["pli"].kind = "array" THEN results["pli"]
    ELSE LET T == NumTrials(d)
             phase_difference == PhaseDifference(d, c1, c2)
             Ya == SumAxis0(Map2(LAMBDA p : Sin2(p)[1], phase_difference))
             Yb == SumAxis0(Map2(LAMBDA p : Sin2(p)[2], phase_difference))
         IN  Array(Tab(LAMBDA n : NumAbs(Num(Ya[n], Yb[n], 2 * T)), Len(Ya)))

calculate_iplv(d, c1, c2) ==
    IF ~IndexOk(d, c1) \/ ~IndexOk(d, c2) THEN IndexError
    ELSE LET T == NumTrials(d)
             phase_difference == PhaseDifference(d, c1, c2)
             \* the trial mean of exp(1j * phase_difference).imag is
             \* (Ya + Yb sqrt 2) / (2 T)
             Ya == SumAxis0(Map2(LAMBDA p : Sin2(p)[1], phase_difference))
             Yb == SumAxis0(Map2(LAMBDA p : Sin2(p)[2], phase_difference))
         IN  Array(Tab(LAMBDA n : NumAbs(Num(Ya[n], Yb[n], 2 * T)), Len(Ya)))

calculate_pli_summed(d, c1, c2) ==
    IF ~IndexOk(d, c1) \/ ~IndexOk(d, c2) THEN IndexError
    ELSE LET s == SumAxis0(Map2(Sign, PhaseDifference(d, c1, c2)))
         IN  Array(Tab(LAMBDA n : NumAbs(Num(s[n], 0, 1)), Len(s)))

calculate_pli_signed(d, c1, c2) ==
    IF ~IndexOk(d, c1) \/ ~IndexOk(d, c2) THEN IndexError
    ELSE LET s == SumAxis0(Map2(Sign, PhaseDifference(d, c1, c2)))
         IN  Array(Tab(LAMBDA n : Num(s[n], 0, NumTrials(d)), Len(s)))

calculate_pli(d, c1, c2) ==
    IF ~IndexOk(d, c1) \/ ~IndexOk(d, c2) THEN IndexError
    ELSE LET T == NumTrials(d)
             phase_difference == PhaseDifference(d, c1, c2)
             \* np.sign(phase_difference)
             complex_phase_difference == Map2(Sign, phase_difference)
             mean_vector == SumAxis0(complex_phase_difference)
         IN  Array(Tab(LAMBDA n : NumAbs(Num(mean_vector[n], 0, T)),
                       Len(mean_vector)))

\* analytic_signal_ch1 * np.conj(analytic_signal_ch2), or IndexError.  With
\* rows of length N the parts are in units of 1/N^2.
calculate_cross_spectrum_hilbert(d, chs1, chs2) ==
    IF ~IndexOk(d, chs1) \/ ~IndexOk(d, chs2) THEN IndexError
    ELSE LET a1 == Analytic(Slice(d, chs1))
             a2 == Analytic(Slice(d, chs2))
         IN  Array(Tab(LAMBDA t :
                 Tab(LAMBDA n :
                       Cx(a1[t][n].re * a2[t][n].re + a1[t][n].im * a2[t][n].im,
                          a1[t][n].im * a2[t][n].re - a1[t][n].re * a2[t][n].im),
                     NumSamples(d)),
                 NumTrials(d)))

\* x / y for the means x >= 0 and y >= 0 of wPLI, as IEEE division: 0 / 0 is
\* NaN.  (x is 0 whenever y is, so x / 0 with x # 0 does not occur.)
Divide(x, y) == IF y = 0 THEN NaN ELSE Num(x, 0, y)

\* np.abs(np.mean(np.abs(s.imag) * np.sign(s.imag), axis=0)), times T N^2.
WpliNum(s) ==
    LET m == SumAxis0(Map2(LAMBDA z : Abs(z.im) * Sign(z.im), s))
    IN  Tab(LAMBDA n : Abs(m[n]), Len(m))

WpliDenomSigned(s) == SumAxis0(Map2(LAMBDA z : z.im, s))

\* np.mean(np.abs(s.imag), axis=0), times T N^2.
WpliDenom(s) == SumAxis0(Map2(LAMBDA z : Abs(z.im), s))

calculate_wpli(d, c1, c2) ==
    LET s == calculate_cross_spectrum_hilbert(d, c1, c2)
    IN  IF s.kind = "IndexError" THEN s
        ELSE LET num == WpliNum(s.values)
                 denom == WpliDenom(s.values)
             IN  Array(Tab(LAMBDA n : Divide(num[n], denom[n]), Len(num)))

-----------------------------------------------------------------------------
(* The engine: a caller holding a tensor and two channel indices calls the  *)
(* four metrics in any order, any number of times.                          *)

Metrics == {"plv", "iplv", "pli", "wpli"}

NotCalled == [kind |-> "none", values |-> <<>>]

\* The tensors a caller may hold.
Tensors ==
    UNION {TensorsOf(T, Len(ch_names), S, Rows(S)) :
              T \in 1..MaxTrials, S \in SampleCounts}

\* The channel indices a caller may pass: the valid ones, -1, and one beyond
\* each end of what numpy accepts.
ChannelIndices ==
    {-(Len(ch_names) + 1), -1} \cup (0..Len(ch_names))

\* The pairs of indices a caller may pass: two indices of [0, C), or index 0
\* with an index outside [0, C), in either position.
ChannelPairs ==
    LET valid == 0..(Len(ch_names) - 1)
        outside == ChannelIndices \ valid
    IN  (valid \X valid) \cup (outside \X {0}) \cup ({0} \X outside)

ViewerIdle ==
    /\ epochs = <<>>
    /\ filtered = <<>>
    /\ method = 0
    /\ appdata = <<>>
    /\ returnValue = [kind |-> "None", values |-> <<>>]
    /\ closed = FALSE
    /\ dispatched = NotCalled

EngineInit ==
    /\ data \in Tensors
    /\ \E pair \in ChannelPairs : ch1 = pair[1] /\ ch2 = pair[2]
    /\ results = [m \in Metrics |-> NotCalled]
    /\ minus_zero \in BOOLEAN
    /\ ViewerIdle

CallPlv ==
    /\ results' = [results EXCEPT !["plv"] = calculate_plv(data, ch1, ch2)]
    /\ UNCHANGED <<data, ch1, ch2, minus_zero>>
    /\ UNCHANGED viewerVars

CallIplv ==
    /\ results' = [results EXCEPT !["iplv"] = calculate_iplv(data, ch1, ch2)]
    /\ UNCHANGED <<data, ch1, ch2, minus_zero>>
    /\ UNCHANGED viewerVars

CallPli ==
    /\ results' = [results EXCEPT !["pli"] = calculate_pli(data, ch1, ch2)]
    /\ UNCHANGED <<data, ch1, ch2, minus_zero>>
    /\ UNCHANGED viewerVars

CallWpli ==
    /\ results' = [results EXCEPT !["wpli"] = calculate_wpli(data, ch1, ch2)]
    /\ UNCHANGED <<data, ch1, ch2, minus_zero>>
    /\ UNCHANGED viewerVars

EngineNext == CallPlv \/ CallIplv \/ CallPli \/ CallWpli

Spec == EngineInit /\ [][EngineNext]_vars

-----------------------------------------------------------------------------
(* The viewer, MyApp.                                                       *)

None == [kind |-> "None", values |-> <<>>]

\* MyApp.methods: the codes the combo box offers.
methods == 0..3

\* The method codes a direct caller of run_phase_analysis may pass.
MethodCodes == -1..4

run_phase_analysis(m, e, channel1, channel2) ==
    CASE m = 0 -> calculate_plv(e, channel1, channel2)
      [] m = 1 -> calculate_iplv(e, channel1, channel2)
      [] m = 2 -> calculate_pli(e, channel1, channel2)
      [] m = 3 -> calculate_wpli(e, channel1, channel2)
      [] OTHER -> None

\* The recordings a session may be opened on, and what a band-pass filter
\* (mne's Epochs.filter, a collaborator outside the repository) may turn one
\* into: a tensor of the same shape.
SessionTensors ==
    TensorsOf(1, Len(ch_names), 4, {<<1, 0, -1, 0>>, <<1, 1, -1, -1>>})

\* The recordings a session is opened on: those of two different channels.
Recordings == {e \in SessionTensors : e[1][1] # e[1][2]}

\* filterLineEdit.text(), as a sequence of characters; a character is its
\* Unicode code point.
LeftBracket == 91

RightBracket == 93

Comma == 44

\* The default of sys.int_info.default_max_str_digits (CPython 3.11): int()
\* raises ValueError on a text of more decimal digits.
int_max_str_digits == 4300

\* A text of one number with one digit more than int() converts.
LongNumber == [i \in 1..(int_max_str_digits + 1) |-> 56]

FilterTexts ==
    { <<>>,
      <<91, 56, 44, 32, 49, 50, 93>>,              \* "[8, 12]"
      <<56, 44, 49, 50, 44, 51, 48>>,              \* "8,12,30"
      <<45, 56, 44, 49, 50>>,                      \* "-8,12"
      <<9, 43, 56, 44, 49, 95, 50, 10>>,           \* "\t+8,1_2\n"
      <<1635, 44, 65297, 50, 160>>,                \* U+0663 "," U+FF11 "2" U+00A0
      <<8195, 56, 44, 49, 50, 12288>>,             \* U+2003 "8,12" U+3000
      <<56>>,                                      \* "8"
      <<43, 56>>,                                  \* "+8"
      <<49, 95, 48>>,                              \* "1_0"
      <<56, 133>>,                                 \* "8" U+0085
      <<56, 44>>,                                  \* "8,"
      <<97, 44, 98>>,                              \* "a,b"
      <<45, 32, 56, 44, 49, 50>>,                  \* "- 8,12"
      <<56, 95, 44, 49, 50>>,                      \* "8_,12"
      <<49, 95, 95, 48, 44, 49, 50>>,              \* "1__0,12"
      <<28, 56, 44, 49, 50>>,                      \* U+001C "8,12"
      LongNumber }

\* The first code point of each run of ten decimal digits (Unicode category
\* Nd, Unicode 14): "0" at 48, ARABIC-INDIC DIGIT ZERO at 1632, ...
DigitZeros ==
    { 48, 1632, 1776, 1984, 2406, 2534, 2662, 2790, 2918, 3046, 3174, 3302,
      3430, 3558, 3664, 3792, 3872, 4160, 4240, 6112, 6160, 6470, 6608, 6784,
      6800, 6992, 7088, 7232, 7248, 42528, 43216, 43264, 43472, 43504, 43600,
      44016, 65296, 66720, 68912, 69734, 69872, 69942, 70096, 70384, 70736,
      70864, 71248, 71360, 71472, 71904, 72016, 72784, 73040, 73120, 92768,
      92864, 93008, 120782, 120792, 120802, 120812, 120822, 123200, 123632,
      125264, 130032 }

\* The characters int() reads as decimal digits.
Digits == UNION {z..(z + 9) : z \in DigitZeros}

\* The characters int() strips from both ends: tab, newline, vertical tab,
\* form feed, carriage return, blank, and the Unicode spaces beyond ASCII.
Whitespace ==
    {9, 10, 11, 12, 13, 32, 133, 160, 5760} \cup (8192..8202)
        \cup {8232, 8233, 8239, 8287, 12288}

\* str.replace(c, ""): the text without its occurrences of c.
Remove(text, c) == SelectSeq(text, LAMBDA x : x # c)

\* str.split(","): the pieces between the commas; one piece for a text
\* without a comma, the empty piece included.
Split(text) ==
    LET commas == SelectSeq([i \in 1..Len(text) |-> i],
                            LAMBDA i : text[i] = Comma)
        cuts == <<0>> \o commas \o <<Len(text) + 1>>
    IN  Tab(LAMBDA k : SubSeq(text, cuts[k] + 1, cuts[k + 1] - 1),
            Len(cuts) - 1)

\* The whitespace int() strips before it reads the number.
RECURSIVE StripLeft(_)
StripLeft(piece) ==
    IF piece # <<>> /\ Head(piece) \in Whitespace THEN StripLeft(Tail(piece))
    ELSE piece

RECURSIVE StripRight(_)
StripRight(piece) ==
    IF piece # <<>> /\ piece[Len(piece)] \in Whitespace
    THEN StripRight(SubSeq(piece, 1, Len(piece) - 1))
    ELSE piece

\* int(x) accepts a piece that is, whitespace at its ends aside, an optional
\* sign ("+" 43, "-" 45) followed by decimal digits with single underscores
\* (95) between them, of at most int_max_str_digits digits; it raises
\* ValueError on anything else.
IntOk(piece) ==
    LET p == StripRight(StripLeft(piece))
        q == IF p # <<>> /\ Head(p) \in {43, 45} THEN Tail(p) ELSE p
    IN  /\ q # <<>>
        /\ Len(SelectSeq(q, LAMBDA c : c \in Digits)) <= int_max_str_digits
        /\ \A i \in 1..Len(q) : q[i] \in Digits \/ q[i] = 95
        /\ q[1] \in Digits
        /\ q[Len(q)] \in Digits
        /\ \A i \in 1..(Len(q) - 1) : ~(q[i] = 95 /\ q[i + 1] = 95)

\* The pieces apply_filter hands to int(): the text without brackets, split
\* at the commas.
FilterPieces(text) == Split(Remove(Remove(text, LeftBracket), RightBracket))

\* What apply_filter does with each text up to line 281: "empty" (line 274),
\* "ValueError" (int(x) raises on line 280, nothing assigned), "one" (the
\* copy assigned, then filter[1] raises IndexError on line 282), "filter"
\* (the copy assigned and the filter called).
FilterOutcome(text) ==
    LET pieces == FilterPieces(text)
    IN  IF text = <<>> THEN "empty"
        ELSE IF \E i \in 1..Len(pieces) : ~IntOk(pieces[i]) THEN "ValueError"
        ELSE IF Len(pieces) < 2 THEN "one"
        ELSE "filter"

\* The outcomes the texts of FilterTexts have.  An apply_filter action is
\* taken with some text of its outcome in the line edit: it is enabled when
\* there is one.
FilterOutcomes == {FilterOutcome(text) : text \in FilterTexts}

\* update_plot: self.data = {} (and the axes redrawn).
update_plot_data == <<>>

ViewerInit ==
    /\ epochs \in Recordings
    /\ filtered = epochs
    /\ method = 0
    /\ appdata = update_plot_data
    /\ returnValue = None
    /\ closed = FALSE
    /\ dispatched = NotCalled
    /\ data = <<>>
    /\ ch1 = 0
    /\ ch2 = 0
    /\ results = [m \in Metrics |-> NotCalled]
    /\ minus_zero \in BOOLEAN

\* apply_filter with an empty text: the unfiltered recording again.
ApplyFilterEmpty ==
    /\ ~closed
    /\ "empty" \in FilterOutcomes
    /\ filtered' = epochs
    /\ appdata' = update_plot_data
    /\ UNCHANGED <<epochs, method, returnValue, closed, dispatched>>
    /\ UNCHANGED engineVars

\* apply_filter raising ValueError in int(x): nothing was assigned yet.  The
\* exception goes to the caller of apply_filter; the object lives on.
ApplyFilterValueError ==
    /\ ~closed
    /\ "ValueError" \in FilterOutcomes
    /\ UNCHANGED viewerVars
    /\ UNCHANGED engineVars

\* apply_filter with a text of one number: filter[1] raises IndexError
\* after self.filtered_epochs = self.epochs.copy(); update_plot is not
\* reached.
ApplyFilterIndexError ==
    /\ ~closed
    /\ "one" \in FilterOutcomes
    /\ filtered' = epochs
    /\ UNCHANGED <<epochs, method, appdata, returnValue, closed, dispatched>>
    /\ UNCHANGED engineVars

\* apply_filter with two numbers or more and a filter that raises (a band
\* the filter design rejects): the copy was assigned, update_plot is not
\* reached.
ApplyFilterRejected ==
    /\ ~closed
    /\ "filter" \in FilterOutcomes
    /\ filtered' = epochs
    /\ UNCHANGED <<epochs, method, appdata, returnValue, closed, dispatched>>
    /\ UNCHANGED engineVars

\* apply_filter with two numbers or more and a filter that succeeds.
ApplyFilterOk ==
    /\ ~closed
    /\ "filter" \in FilterOutcomes
    /\ filtered' \in SessionTensors
    /\ appdata' = update_plot_data
    /\ UNCHANGED <<epochs, method, returnValue, closed, dispatched>>
    /\ UNCHANGED engineVars

\* ch_names.index(name): the zero-based position of the name.
IndexOf(name) == (CHOOSE i \in 1..Len(ch_names) : ch_names[i] = name) - 1

\* add_channels with rows i and j selected in the two lists; the key
\* f"{channel1} - {channel2}" is the pair of names.
add_channels ==
    /\ ~closed
    /\ \E i \in 1..Len(ch_names), j \in 1..Len(ch_names) :
          LET channel1 == ch_names[i]
              channel2 == ch_names[j]
              result == run_phase_analysis(method, filtered,
                                           IndexOf(channel1), IndexOf(channel2))
          IN  appdata' = (<<channel1, channel2>> :> result) @@ appdata
    /\ UNCHANGED <<epochs, filtered, method, returnValue, closed, dispatched>>
    /\ UNCHANGED engineVars

\* methodComboBox.currentIndexChanged -> update_plot.
ChangeMethod ==
    /\ ~closed
    /\ \E m \in methods :
          /\ m # method
          /\ method' = m
    /\ appdata' = update_plot_data
    /\ UNCHANGED <<epochs, filtered, returnValue, closed, dispatched>>
    /\ UNCHANGED engineVars

\* resetPlotButton.clicked -> update_plot.
ResetPlot ==
    /\ ~closed
    /\ appdata' = update_plot_data
    /\ UNCHANGED <<epochs, filtered, method, returnValue, closed, dispatched>>
    /\ UNCHANGED engineVars

\* save_plot writes the figure to a file; the session is as before.
save_plot ==
    /\ ~closed
    /\ UNCHANGED viewerVars
    /\ UNCHANGED engineVars

\* closeEvent: self.returnValue = self.data.
closeEvent ==
    /\ ~closed
    /\ returnValue' = appdata
    /\ closed' = TRUE
    /\ UNCHANGED <<epochs, filtered, method, appdata, dispatched>>
    /\ UNCHANGED engineVars

\* A direct call of run_phase_analysis on the session's tensor, with any
\* method code.
DirectCall ==
    /\ ~closed
    /\ \E m \in MethodCodes :
          dispatched' = [method |-> m,
                         outcome |-> run_phase_analysis(m, filtered, 0, 1)]
    /\ UNCHANGED <<epochs, filtered, method, appdata, returnValue, closed>>
    /\ UNCHANGED engineVars

ViewerNext ==
    \/ ApplyFilterEmpty
    \/ ApplyFilterValueError
    \/ ApplyFilterIndexError
    \/ ApplyFilterRejected
    \/ ApplyFilterOk
    \/ add_channels
    \/ ChangeMethod
    \/ ResetPlot
    \/ save_plot
    \/ closeEvent
    \/ DirectCall

ViewerSpec == ViewerInit /\ [][ViewerNext]_vars

-----------------------------------------------------------------------------
(* Properties.                                                              *)

Returned(m) == results[m].kind = "array"

ValidIndex(ch) == 0 <= ch /\ ch < Len(ch_names)

SampleRange == 1..NumSamples(data)

TrialRange == 1..NumTrials(data)

\* The imaginary parts of the cross-spectrum of the caller's pair.
CrossImag ==
    Map2(LAMBDA z : z.im,
         calculate_cross_spectrum_hilbert(data, ch1, ch2).values)

\* C1: at every sample where the imaginary part of the cross-spectrum is 0
\* in all trials, what calculate_wpli returns is a number, not the NaN of
\* 0 / 0.
C1_WpliZeroDenominatorIsNumber ==
    Returned("wpli") =>
        \A n \in SampleRange :
            (\A t \in TrialRange : CrossImag[t][n] = 0)
                => ~IsNaN(results["wpli"].values[n])

\* C2: with ch1 or ch2 outside [0, C), negative ones included, every metric
\* fails with an error and returns no array.
C2_IndexOutsideRangeFails ==
    \A m \in Metrics :
        (results[m] # NotCalled /\ (~ValidIndex(ch1) \/ ~ValidIndex(ch2)))
            => results[m].kind = "IndexError"

C4_SelfComparison ==
    (ch1 = ch2 /\ ValidIndex(ch1)) =>
        /\ LET pd == PhaseDifference(data, ch1, ch2)
           IN  \A t \in TrialRange : \A n \in SampleRange : pd[t][n] = 0
        /\ Returned("plv") =>
              /\ Len(results["plv"].values) = NumSamples(data)
              /\ \A n \in SampleRange : IsOne(results["plv"].values[n])
        /\ Returned("pli") =>
              /\ Len(results["pli"].values) = NumSamples(data)
              /\ \A n \in SampleRange : IsZero(results["pli"].values[n])

C4_Witness ==
    /\ ch1 = ch2 /\ ch1 = 1
    /\ Returned("plv") /\ Returned("pli")
    /\ NumTrials(data) = 2
    /\ NumSamples(data) = 4
    /\ data[1][2] # data[2][2]

\* C6: at every sample where the wPLI denominator is not 0, the numerator is
\* |trial-mean of imag|, it does not exceed the denominator, and what
\* calculate_wpli returns lies in [0, 1].
C6_WpliInUnitInterval ==
    Returned("wpli") =>
        LET s == calculate_cross_spectrum_hilbert(data, ch1, ch2).values
            num == WpliNum(s)
            denom == WpliDenom(s)
            meanImag == SumAxis0(CrossImag)
        IN  \A n \in 1..Len(results["wpli"].values) :
                denom[n] # 0 =>
                    /\ num[n] = Abs(meanImag[n])
                    /\ num[n] <= denom[n]
                    /\ GeqZero(results["wpli"].values[n])
                    /\ LeqOne(results["wpli"].values[n])

C6_Witness ==
    /\ Returned("wpli")
    /\ NumTrials(data) = 2
    /\ \E n \in SampleRange :
          /\ CrossImag[1][n] > 0
          /\ CrossImag[2][n] < 0
          /\ ~IsNaN(results["wpli"].values[n])

C8_OutputLengthIsSampleCount ==
    \A m \in Metrics :
        Returned(m) => Len(results[m].values) = NumSamples(data)

C8_Witness ==
    /\ \A m \in Metrics : Returned(m)
    /\ NumTrials(data) = 2
    /\ NumSamples(data) = 4

\* A phase difference in units of pi/4 wrapped into (-pi, pi].
Wrap(p) == IF p > 4 THEN p - 8 ELSE IF p <= -4 THEN p + 8 ELSE p

\* PLI computed from the wrapped phase difference.
PliWrapped(d, c1, c2) ==
    LET s == SumAxis0(Map2(LAMBDA q : Sign(Wrap(q)), PhaseDifference(d, c1, c2)))
    IN  Array(Tab(LAMBDA n : NumAbs(Num(s[n], 0, NumTrials(d))), Len(s)))

\* A raw difference of exactly pi or -pi: the one value whose wrapped sign
\* depends on which end of the interval the wrap keeps.
OnBranchCut(p) == p = 4 \/ p = -4

\* C9, as claimed: the sign of the raw phase difference is the sign of the
\* wrapped one for every pair of phases, and calculate_pli returns the PLI
\* of the wrapped difference.  Stated here for the samples where no raw
\* difference is exactly pi or -pi, which the claim covers a fortiori.
C9_RawSignIsWrappedSign ==
    Returned("pli") =>
        LET pd == PhaseDifference(data, ch1, ch2)
            wrapped == PliWrapped(data, ch1, ch2).values
        IN  \A n \in SampleRange :
                (\A t \in TrialRange : ~OnBranchCut(pd[t][n])) =>
                    /\ \A t \in TrialRange :
                          Sign(pd[t][n]) = Sign(Wrap(pd[t][n]))
                    /\ results["pli"].values[n] = wrapped[n]

\* The raw difference p lies in (-pi, pi].
InPrincipalRange(p) == -4 < p /\ p <= 4

\* C9, amended: at every sample where the raw phase difference of every
\* trial lies in (-pi, pi], calculate_pli returns the PLI of the wrapped
\* difference; the sign of a raw difference outside (-pi, pi] differs from
\* the sign of its wrapped value.
C9_PliIsWrappedPliInPrincipalRange ==
    Returned("pli") =>
        LET pd == PhaseDifference(data, ch1, ch2)
            wrapped == PliWrapped(data, ch1, ch2).values
        IN  /\ Len(results["pli"].values) = NumSamples(data)
            /\ \A n \in SampleRange :
                  (\A t \in TrialRange : InPrincipalRange(pd[t][n]))
                      => results["pli"].values[n] = wrapped[n]
            /\ \A t \in TrialRange : \A n \in SampleRange :
                  ~InPrincipalRange(pd[t][n])
                      => Sign(pd[t][n]) # Sign(Wrap(pd[t][n]))

C9_Witness ==
    /\ Returned("pli")
    /\ NumTrials(data) = 2
    /\ ch1 # ch2
    /\ LET pd == PhaseDifference(data, ch1, ch2)
       IN  /\ \E n \in SampleRange :
                 /\ \A t \in TrialRange : InPrincipalRange(pd[t][n])
                 /\ pd[1][n] < 0
                 /\ pd[2][n] < 0
           /\ \E n \in SampleRange : \E t \in TrialRange :
                 ~InPrincipalRange(pd[t][n])

\* C5: run_phase_analysis maps 0, 1, 2, 3 to PLV, iPLV, PLI, wPLI, and
\* signals an error for every other method code.
C5_UnknownMethodIsError ==
    dispatched # NotCalled =>
        /\ dispatched.method = 0
              => dispatched.outcome = calculate_plv(filtered, 0, 1)
        /\ dispatched.method = 1
              => dispatched.outcome = calculate_iplv(filtered, 0, 1)
        /\ dispatched.method = 2
              => dispatched.outcome = calculate_pli(filtered, 0, 1)
        /\ dispatched.method = 3
              => dispatched.outcome = calculate_wpli(filtered, 0, 1)
        /\ dispatched.method \notin methods
              => dispatched.outcome.kind \notin {"None", "array"}

\* C10: every entry of self.data, and of the value returned on close, is
\* what the selected method gives on the filtered_epochs the viewer holds.
C10_DataMatchesMethodAndFilter ==
    /\ \A key \in DOMAIN appdata :
          appdata[key] = run_phase_analysis(method, filtered,
                                            IndexOf(key[1]), IndexOf(key[2]))
    /\ closed =>
          /\ DOMAIN returnValue = DOMAIN appdata
          /\ \A key \in DOMAIN returnValue :
                returnValue[key] = run_phase_analysis(method, filtered,
                                       IndexOf(key[1]), IndexOf(key[2]))

====
